---- MODULE Spec2Model ----
(***************************************************************************)
(* summpy/lexrank.py: lexrank() builds the sentence-similarity graph and   *)
(* hands it to a ranker; summarize() walks the sentences in ranked order   *)
(* and selects them under sent_limit / char_limit / imp_require.           *)
(*                                                                         *)
(* Numbers.  Scores are floats in the code; here a score is an integer     *)
(* number of score units, and imp_require is a pair <<num, den>>, so that  *)
(* acc_scores / sum_scores >= imp_require is compared exactly by cross     *)
(* multiplication.  Similarities are integers in units of 0.05.            *)
(* Optional arguments: None is <<>>, a value v is <<v>>.                   *)
(***************************************************************************)
EXTENDS Integers, Sequences, FiniteSets, TLC

VARIABLES
    pc,            \* position in summarize() / lexrank()
    documents,     \* the input sentences (0-based in the code: Doc(i))
    sent_limit,    \* Optional[int]
    char_limit,    \* Optional[int]
    imp_require,   \* Optional[float], as <<num, den>>
    scores,        \* dict index -> score returned by lexrank()
    sum_scores,
    acc_scores,
    indexes,       \* the set of accepted indices
    num_sent,
    num_char,
    order,         \* the list sorted(scores, key=..., reverse=True) being iterated
    pos,           \* how many elements of order the for loop has taken
    summary_sents, \* first returned value
    ret_indexes,   \* second returned value
    sim_mat,       \* lexrank(): N x N similarity matrix (rows of cells)
    continuous,
    sim_threshold,
    linked,        \* zip(linked_rows, linked_cols)
    lpos,          \* how many pairs of linked the for loop has taken
    nodes,         \* graph nodes
    edges          \* graph edges: function <<i, j>> -> weight

vars == <<pc, documents, sent_limit, char_limit, imp_require, scores, sum_scores,
          acc_scores, indexes, num_sent, num_char, order, pos, summary_sents,
          ret_indexes, sim_mat, continuous, sim_threshold, linked, lpos, nodes,
          edges>>

sumVars == <<documents, sent_limit, char_limit, imp_require, scores, sum_scores,
             acc_scores, indexes, num_sent, num_char, order, pos, summary_sents,
             ret_indexes>>

lexVars == <<sim_mat, continuous, sim_threshold, linked, lpos, nodes, edges>>

(* ------------------------------ bounds -------------------------------- *)

\* Largest number of sentences given to summarize().
MaxN == 3
\* Largest score of one sentence, in score units.
MaxScore == 2
\* Largest number of sentences given to lexrank() when the graph is built.
MaxNodes == 2

(* ------------------------------ inputs -------------------------------- *)

None == <<>>
Some(v) == <<v>>

\* Sentence texts, of different lengths.
Sentences == {"a", "bc"}

SeqsOfLen(S, n) == [1..n -> S]

DocumentInputs == UNION {SeqsOfLen(Sentences, n) : n \in 1..MaxN}

\* Values include invalid ones (negative limits, fractions outside [0,1]):
\* summarize() takes whatever it is given.
SentLimitInputs == {None} \cup {Some(v) : v \in {-1, 0, 1, 2}}
CharLimitInputs == {None} \cup {Some(v) : v \in {-1, 1, 2, 3}}
ImpRequireInputs ==
    {None} \cup {Some(f) : f \in {<<-1, 2>>, <<0, 1>>, <<1, 2>>, <<1, 1>>, <<3, 2>>}}

\* What a ranker may return for n nodes: one non-negative score per node.
ScoreMaps(n) == [0..(n - 1) -> 0..MaxScore]

(* ------------------------- summarize(): helpers ------------------------ *)

N == Len(documents)

Doc(i) == documents[i + 1]

RECURSIVE SumScores(_, _)
\* sum(scores.values()) over the first n entries
SumScores(sc, n) == IF n = 0 THEN 0 ELSE SumScores(sc, n - 1) + sc[n - 1]

\* The keys of the scores dict in iteration order: the graph's nodes in the
\* order add_nodes_from(range(N)) inserted them.
DictKeys(sc) == [k \in 1..Cardinality(DOMAIN sc) |-> k - 1]

Reverse(s) == [k \in 1..Len(s) |-> s[Len(s) + 1 - k]]

\* One insertion of a stable sort: x goes after every element that does not
\* sort after it.
InsertStable(s, x, sc, desc) ==
    LET stays(e) == IF desc THEN sc[e] >= sc[x] ELSE sc[e] <= sc[x]
        p == Cardinality({q \in 1..Len(s) : stays(s[q])})
    IN  SubSeq(s, 1, p) \o <<x>> \o SubSeq(s, p + 1, Len(s))

RECURSIVE StableSortBy(_, _, _)
StableSortBy(keys, sc, desc) ==
    IF keys = <<>> THEN <<>>
    ELSE InsertStable(StableSortBy(SubSeq(keys, 1, Len(keys) - 1), sc, desc),
                      keys[Len(keys)], sc, desc)

\* sorted(scores, key=lambda i: scores[i]) reversed afterwards: equal scores
\* come out in descending index order.
RankedReversedAscending(sc) == Reverse(StableSortBy(DictKeys(sc), sc, FALSE))

\* sorted(scores, key=lambda i: scores[i], reverse=True): a stable sort, so
\* equal scores keep the dict's order.
Ranked(sc) == StableSortBy(DictKeys(sc), sc, TRUE)

Min(S) == CHOOSE x \in S : \A y \in S : x <= y
Max(S) == CHOOSE x \in S : \A y \in S : x >= y

RECURSIVE SortedDescending(_)
SortedDescending(S) ==
    IF S = {} THEN <<>> ELSE <<Max(S)>> \o SortedDescending(S \ {Max(S)})

RECURSIVE SortedIndexes(_)
\* sorted(indexes)
SortedIndexes(S) ==
    IF S = {} THEN <<>> ELSE <<Min(S)>> \o SortedIndexes(S \ {Min(S)})

\* sent_limit read with None as 0
SentBreachNoneIsZero(lim, ns) == ns > (IF lim = None THEN 0 ELSE lim[1])

\* sent_limit is not None and num_sent > sent_limit
SentBreach(lim, ns) == lim # None /\ ns > lim[1]

\* num_char >= char_limit
CharBreachInclusive(lim, nc) == lim # None /\ nc >= lim[1]

\* char_limit is not None and num_char > char_limit
CharBreach(lim, nc) == lim # None /\ nc > lim[1]

\* acc_scores / sum_scores > imp_require
ImpReachedStrict(imp, acc, total) ==
    imp # None /\ acc * imp[1][2] > imp[1][1] * total

\* imp_require is not None and acc_scores / sum_scores >= imp_require,
\* for sum_scores > 0 (a zero sum_scores raises, see LoopRaise)
ImpReached(imp, acc, total) ==
    imp # None /\ acc * imp[1][2] >= imp[1][1] * total

\* [documents[i] for i in sorted(indexes)] with no fallback
SummarySentsNoFallback(docs, idx) ==
    [k \in 1..Cardinality(idx) |-> docs[SortedIndexes(idx)[k] + 1]]

\* lines 135-138: the selected sentences, or all documents when none was
\* selected
SummarySents(docs, idx) ==
    IF Cardinality(idx) > 0
    THEN [k \in 1..Cardinality(idx) |-> docs[SortedIndexes(idx)[k] + 1]]
    ELSE docs

(* ------------------------- summarize(): actions ------------------------ *)

\* line 118-122: lexrank() returns the ranker's scores; the counters start.
CallLexrank ==
    /\ pc = "call_lexrank"
    /\ \E sc \in ScoreMaps(N) :
          /\ scores' = sc
          /\ sum_scores' = SumScores(sc, N)
          /\ order' = Ranked(sc)
    /\ acc_scores' = 0
    /\ indexes' = {}
    /\ num_sent' = 0
    /\ num_char' = 0
    /\ pos' = 0
    /\ pc' = "loop"
    /\ UNCHANGED <<documents, sent_limit, char_limit, imp_require,
                   summary_sents, ret_indexes>>
    /\ UNCHANGED lexVars

\* The candidate the for loop takes next.
Cand == order[pos + 1]

\* lines 124-129: the counters are incremented, then a breached sent_limit
\* or char_limit breaks.
LoopBreakLimit ==
    /\ pc = "loop"
    /\ pos < Len(order)
    /\ \/ SentBreach(sent_limit, num_sent + 1)
       \/ CharBreach(char_limit, num_char + Len(Doc(Cand)))
    /\ num_sent' = num_sent + 1
    /\ num_char' = num_char + Len(Doc(Cand))
    /\ pos' = pos + 1
    /\ pc' = "select"
    /\ UNCHANGED <<documents, sent_limit, char_limit, imp_require, scores,
                   sum_scores, acc_scores, indexes, order, summary_sents,
                   ret_indexes>>
    /\ UNCHANGED lexVars

\* line 130: acc_scores / sum_scores with sum_scores = 0.0 raises
\* ZeroDivisionError out of summarize().
LoopRaise ==
    /\ pc = "loop"
    /\ pos < Len(order)
    /\ ~SentBreach(sent_limit, num_sent + 1)
    /\ ~CharBreach(char_limit, num_char + Len(Doc(Cand)))
    /\ imp_require # None
    /\ sum_scores = 0
    /\ num_sent' = num_sent + 1
    /\ num_char' = num_char + Len(Doc(Cand))
    /\ pos' = pos + 1
    /\ pc' = "ZeroDivisionError"
    /\ UNCHANGED <<documents, sent_limit, char_limit, imp_require, scores,
                   sum_scores, acc_scores, indexes, order, summary_sents,
                   ret_indexes>>
    /\ UNCHANGED lexVars

\* lines 130-131: the accumulated fraction has reached imp_require: break.
LoopBreakImp ==
    /\ pc = "loop"
    /\ pos < Len(order)
    /\ ~SentBreach(sent_limit, num_sent + 1)
    /\ ~CharBreach(char_limit, num_char + Len(Doc(Cand)))
    /\ sum_scores # 0
    /\ ImpReached(imp_require, acc_scores, sum_scores)
    /\ num_sent' = num_sent + 1
    /\ num_char' = num_char + Len(Doc(Cand))
    /\ pos' = pos + 1
    /\ pc' = "select"
    /\ UNCHANGED <<documents, sent_limit, char_limit, imp_require, scores,
                   sum_scores, acc_scores, indexes, order, summary_sents,
                   ret_indexes>>
    /\ UNCHANGED lexVars

\* lines 132-133: no limit is breached: the candidate is accepted.
LoopAccept ==
    /\ pc = "loop"
    /\ pos < Len(order)
    /\ ~SentBreach(sent_limit, num_sent + 1)
    /\ ~CharBreach(char_limit, num_char + Len(Doc(Cand)))
    /\ imp_require # None => sum_scores # 0
    /\ ~ImpReached(imp_require, acc_scores, sum_scores)
    /\ num_sent' = num_sent + 1
    /\ num_char' = num_char + Len(Doc(Cand))
    /\ indexes' = indexes \cup {Cand}
    /\ acc_scores' = acc_scores + scores[Cand]
    /\ pos' = pos + 1
    /\ UNCHANGED <<pc, documents, sent_limit, char_limit, imp_require, scores,
                   sum_scores, order, summary_sents, ret_indexes>>
    /\ UNCHANGED lexVars

\* line 123: the sorted list is exhausted.
LoopEnd ==
    /\ pc = "loop"
    /\ pos = Len(order)
    /\ pc' = "select"
    /\ UNCHANGED sumVars
    /\ UNCHANGED lexVars

\* lines 135-143: the two returned values.
Return ==
    /\ pc = "select"
    /\ summary_sents' = SummarySents(documents, indexes)
    /\ ret_indexes' = SortedIndexes(indexes)
    /\ pc' = "done"
    /\ UNCHANGED <<documents, sent_limit, char_limit, imp_require, scores,
                   sum_scores, acc_scores, indexes, num_sent, num_char, order,
                   pos>>
    /\ UNCHANGED lexVars

LexIdle ==
    /\ sim_mat = <<>>
    /\ continuous = FALSE
    /\ sim_threshold = 0
    /\ linked = <<>>
    /\ lpos = 0
    /\ nodes = {}
    /\ edges = <<>>

Init ==
    /\ pc = "call_lexrank"
    /\ documents \in DocumentInputs
    /\ sent_limit \in SentLimitInputs
    /\ char_limit \in CharLimitInputs
    /\ imp_require \in ImpRequireInputs
    /\ scores = <<>>
    /\ sum_scores = 0
    /\ acc_scores = 0
    /\ indexes = {}
    /\ num_sent = 0
    /\ num_char = 0
    /\ order = <<>>
    /\ pos = 0
    /\ summary_sents = <<>>
    /\ ret_indexes = <<>>
    /\ LexIdle

Next ==
    \/ CallLexrank
    \/ LoopBreakLimit
    \/ LoopRaise
    \/ LoopBreakImp
    \/ LoopAccept
    \/ LoopEnd
    \/ Return

Spec == Init /\ [][Next]_vars

(* ------------------------ summarize(): claims -------------------------- *)

Unset(x) == x = None

RECURSIVE PrefixChars(_)
\* total character length of the first k sentences of the ranked order
PrefixChars(k) == IF k = 0 THEN 0 ELSE PrefixChars(k - 1) + Len(Doc(order[k]))

RECURSIVE PrefixScore(_)
\* total score of the first k sentences of the ranked order
PrefixScore(k) == IF k = 0 THEN 0 ELSE PrefixScore(k - 1) + scores[order[k]]

RankedPrefix(m) == {order[j] : j \in 1..m}

AllIndexes == [k \in 1..N |-> k - 1]

\* C1: the index list summarize returns is strictly ascending and every
\* element of it is one of 0..N-1.
C1_IndexesAscending ==
    pc = "done" =>
        /\ \A k \in 1..Len(ret_indexes) : ret_indexes[k] \in 0..(N - 1)
        /\ \A k \in 1..(Len(ret_indexes) - 1) : ret_indexes[k] < ret_indexes[k + 1]

\* C1 witness: two sentences were accepted, the later one in the document first.
C1_Witness ==
    /\ pc = "done"
    /\ N = 3
    /\ order[1] = 2
    /\ ret_indexes = <<0, 2>>

\* C2: when the selection loop accepted no sentence, the returned sentence
\* list is the whole input, in its original order.
C2_FailOpen ==
    (pc = "done" /\ indexes = {}) => summary_sents = documents

\* C2 witness: the first candidate was rejected on a two-sentence input whose
\* sentences differ.
C2_Witness ==
    /\ pc = "done"
    /\ indexes = {}
    /\ num_sent = 1
    /\ N >= 2
    /\ documents[1] # documents[2]

\* C3: the returned sentence list has the length of the returned index list
\* and its k-th sentence is documents[indices[k]].
C3_Correspond ==
    pc = "done" =>
        /\ Len(summary_sents) = Len(ret_indexes)
        /\ \A k \in 1..Len(ret_indexes) : summary_sents[k] = Doc(ret_indexes[k])

\* C4: with sent_limit, char_limit and imp_require all unset, the returned
\* indices are exactly 0..N-1 and the returned sentences are the input.
C4_NoConstraint ==
    (pc = "done" /\ Unset(sent_limit) /\ Unset(char_limit) /\ Unset(imp_require)) =>
        /\ ret_indexes = AllIndexes
        /\ summary_sents = documents

\* C4 witness: three sentences, ranked in an order that is not document order.
C4_Witness ==
    /\ pc = "done"
    /\ Unset(sent_limit) /\ Unset(char_limit) /\ Unset(imp_require)
    /\ N = 3
    /\ order = <<2, 0, 1>>

ImpOneOnly ==
    /\ Unset(sent_limit)
    /\ Unset(char_limit)
    /\ imp_require = Some(<<1, 1>>)

\* C6 as stated: with imp_require = 1.0 the only set constraint and a positive
\* score total, all sentences are returned in original order.
C6_ImpOneAll ==
    (pc = "done" /\ ImpOneOnly /\ sum_scores > 0) => summary_sents = documents

\* The shortest ranked prefix whose accumulated fraction has reached 1.0
\* (N when no shorter one has).
FullPrefix ==
    Min({k \in 1..N : k = N \/ PrefixScore(k) >= sum_scores})

\* C6 amended: with imp_require = 1.0 the only set constraint and a positive
\* score total, exactly the shortest ranked prefix whose accumulated fraction
\* reaches 1.0 is returned, in original order; sentences ranked after it are
\* left out; that prefix is every sentence when all scores are positive.
C6_ImpOnePrefix ==
    (pc = "done" /\ ImpOneOnly /\ sum_scores > 0) =>
        /\ indexes = RankedPrefix(FullPrefix)
        /\ ret_indexes = SortedIndexes(RankedPrefix(FullPrefix))
        /\ Len(summary_sents) = FullPrefix
        /\ \A k \in 1..FullPrefix : summary_sents[k] = Doc(ret_indexes[k])
        /\ (\A i \in 0..(N - 1) : scores[i] > 0) => summary_sents = documents

\* C6 witness: a sentence with score 0 was left out.
C6_Witness ==
    /\ pc = "done"
    /\ ImpOneOnly
    /\ sum_scores > 0
    /\ \E i \in 0..(N - 1) : scores[i] = 0 /\ i \notin indexes
    /\ Len(summary_sents) < N

InvalidConstraints ==
    \/ ~Unset(sent_limit) /\ sent_limit[1] < 0
    \/ ~Unset(char_limit) /\ char_limit[1] < 0
    \/ ~Unset(imp_require) /\ imp_require[1][1] < 0
    \/ ~Unset(imp_require) /\ imp_require[1][1] > imp_require[1][2]

\* C7: on a single-sentence input, whatever its score and the constraints,
\* summarize does not raise and returns exactly that sentence (stated here
\* for constraint values inside their documented ranges already).
C7_SingleSentence ==
    (N = 1 /\ ~InvalidConstraints) =>
        /\ pc # "ZeroDivisionError"
        /\ pc = "done" => summary_sents = documents

\* C8: a call with a negative sent_limit or char_limit, or an imp_require
\* outside [0,1], is rejected: it never returns a sentence list.
C8_InvalidRejected ==
    InvalidConstraints => pc # "done"

\* C9: the loop takes the indices in descending score order, equal scores in
\* ascending index order; every index is taken from that one order.
C9_RankOrder ==
    pc # "call_lexrank" =>
        /\ Len(order) = N
        /\ {order[k] : k \in 1..N} = 0..(N - 1)
        /\ \A a \in 1..N : \A b \in 1..N :
              a < b =>
                 \/ scores[order[a]] > scores[order[b]]
                 \/ scores[order[a]] = scores[order[b]] /\ order[a] < order[b]
        /\ indexes \subseteq RankedPrefix(pos)

\* C9 witness: the loop went through three sentences, two of equal score and
\* a later one of higher score.
C9_Witness ==
    /\ pc = "loop"
    /\ N = 3
    /\ pos = 3
    /\ scores[0] = scores[1]
    /\ scores[2] > scores[0]

\* Whether the k-th ranked sentence passes the three checks after the first
\* k - 1 ranked sentences were accepted.
Fits(k) ==
    /\ Unset(sent_limit) \/ k <= sent_limit[1]
    /\ Unset(char_limit) \/ PrefixChars(k) <= char_limit[1]
    /\ Unset(imp_require) \/
          PrefixScore(k - 1) * imp_require[1][2] < imp_require[1][1] * sum_scores

\* C10: the accepted set is the longest prefix of the ranked order all of
\* whose members pass the three checks; the first candidate that fails ends
\* the selection, and no later one is accepted.
C10_LongestPrefix ==
    pc = "done" =>
        LET m == Cardinality(indexes)
        IN  /\ indexes = RankedPrefix(m)
            /\ \A k \in 1..m : Fits(k)
            /\ m = N \/ ~Fits(m + 1)

\* C10 witness: the second candidate breached char_limit and ended the
\* selection although the third one would still have fitted.
C10_Witness ==
    /\ pc = "done"
    /\ Unset(sent_limit) /\ Unset(imp_require)
    /\ char_limit = Some(2)
    /\ N = 3
    /\ Cardinality(indexes) = 1
    /\ Len(Doc(order[1])) = 1
    /\ Len(Doc(order[2])) = 2
    /\ Len(Doc(order[3])) = 1

(* ----------------------------- lexrank() ------------------------------- *)

\* weight 1.0 of a binary-policy edge, in similarity units of 0.05
BinaryWeight == 20

SimValues == {0, 1, 2}

\* sim_threshold: 0.05 and the default 0.1
ThresholdInputs == {1, 2}

\* sim_mat of pairwise_distances(sent_vecs, sent_vecs): one row and one
\* column per sentence.
SimMatInputs ==
    UNION {SeqsOfLen(SeqsOfLen(SimValues, n), n) : n \in 1..MaxNodes}

Dim(sim) == Len(sim)

Cell(sim, i, j) == sim[i + 1][j + 1]

\* sim_mat > sim_threshold under the binary policy
IsLinkedStrict(sim, cont, thr, i, j) ==
    IF cont THEN Cell(sim, i, j) > 0 ELSE Cell(sim, i, j) > thr

\* lines 79-82: the cells numpy.where selects
IsLinked(sim, cont, thr, i, j) ==
    IF cont THEN Cell(sim, i, j) > 0 ELSE Cell(sim, i, j) >= thr

RECURSIVE WherePairs(_, _, _, _)
\* the selected cells among the first c cells in row-major order
WherePairs(sim, cont, thr, c) ==
    IF c = 0 THEN <<>>
    ELSE LET i == (c - 1) \div Dim(sim)
             j == (c - 1) % Dim(sim)
         IN  WherePairs(sim, cont, thr, c - 1) \o
                 (IF IsLinked(sim, cont, thr, i, j) THEN << <<i, j>> >> ELSE <<>>)

\* zip(linked_rows, linked_cols) of numpy.where(...)
Where(sim, cont, thr) == WherePairs(sim, cont, thr, Dim(sim) * Dim(sim))

\* line 89
EdgeWeight(sim, cont, i, j) == IF cont THEN Cell(sim, i, j) ELSE BinaryWeight

\* DiGraph.add_edge(i, j, weight=w)
WithEdge(g, i, j, w) ==
    [e \in (DOMAIN g) \cup {<<i, j>>} |-> IF e = <<i, j>> THEN w ELSE g[e]]

\* lines 79-82
LexWhere ==
    /\ pc = "lex_where"
    /\ linked' = Where(sim_mat, continuous, sim_threshold)
    /\ pc' = "lex_add_nodes"
    /\ UNCHANGED <<sim_mat, continuous, sim_threshold, lpos, nodes, edges>>
    /\ UNCHANGED sumVars

\* line 85
LexAddNodes ==
    /\ pc = "lex_add_nodes"
    /\ nodes' = nodes \cup 0..(Dim(sim_mat) - 1)
    /\ pc' = "lex_edges"
    /\ UNCHANGED <<sim_mat, continuous, sim_threshold, linked, lpos, edges>>
    /\ UNCHANGED sumVars

\* lines 86-88: a pair of the diagonal is skipped
LexSkipSelf ==
    /\ pc = "lex_edges"
    /\ lpos < Len(linked)
    /\ linked[lpos + 1][1] = linked[lpos + 1][2]
    /\ lpos' = lpos + 1
    /\ UNCHANGED <<pc, sim_mat, continuous, sim_threshold, linked, nodes, edges>>
    /\ UNCHANGED sumVars

\* lines 86-90: an edge is added for a pair off the diagonal
LexAddEdge ==
    /\ pc = "lex_edges"
    /\ lpos < Len(linked)
    /\ LET i == linked[lpos + 1][1]
           j == linked[lpos + 1][2]
       IN  /\ i # j
           /\ edges' = WithEdge(edges, i, j, EdgeWeight(sim_mat, continuous, i, j))
           /\ nodes' = nodes \cup {i, j}
    /\ lpos' = lpos + 1
    /\ UNCHANGED <<pc, sim_mat, continuous, sim_threshold, linked>>
    /\ UNCHANGED sumVars

\* line 92: the pairs are exhausted and the graph goes to the ranker
LexCallRanker ==
    /\ pc = "lex_edges"
    /\ lpos = Len(linked)
    /\ pc' = "lex_rank"
    /\ UNCHANGED lexVars
    /\ UNCHANGED sumVars

SumIdle ==
    /\ documents = <<>>
    /\ sent_limit = None
    /\ char_limit = None
    /\ imp_require = None
    /\ scores = <<>>
    /\ sum_scores = 0
    /\ acc_scores = 0
    /\ indexes = {}
    /\ num_sent = 0
    /\ num_char = 0
    /\ order = <<>>
    /\ pos = 0
    /\ summary_sents = <<>>
    /\ ret_indexes = <<>>

InitLexrank ==
    /\ pc = "lex_where"
    /\ sim_mat \in SimMatInputs
    /\ continuous \in BOOLEAN
    /\ sim_threshold \in ThresholdInputs
    /\ linked = <<>>
    /\ lpos = 0
    /\ nodes = {}
    /\ edges = <<>>
    /\ SumIdle

NextLexrank ==
    \/ LexWhere
    \/ LexAddNodes
    \/ LexSkipSelf
    \/ LexAddEdge
    \/ LexCallRanker

SpecLexrank == InitLexrank /\ [][NextLexrank]_vars

\* C5: the graph handed to the ranker has the nodes 0..N-1; under the binary
\* policy an edge (i,j) exists iff sim[i][j] >= sim_threshold and i # j, with
\* weight 1.0; under the continuous policy iff sim[i][j] > 0 and i # j, with
\* weight sim[i][j]; no self-loop is ever in the graph.
C5_GraphEdges ==
    /\ \A e \in DOMAIN edges : e[1] # e[2]
    /\ pc = "lex_rank" =>
          /\ nodes = 0..(Dim(sim_mat) - 1)
          /\ \A i \in nodes : \A j \in nodes :
                /\ <<i, j>> \in DOMAIN edges <=>
                      /\ i # j
                      /\ (continuous => sim_mat[i + 1][j + 1] > 0)
                      /\ (~continuous => sim_mat[i + 1][j + 1] >= sim_threshold)
                /\ <<i, j>> \in DOMAIN edges =>
                      edges[<<i, j>>] =
                          IF continuous THEN sim_mat[i + 1][j + 1] ELSE BinaryWeight

\* C5 witness: binary policy, a diagonal cell and one off-diagonal cell at the
\* threshold, the other off-diagonal cell below it: one edge only.
C5_Witness ==
    /\ pc = "lex_rank"
    /\ ~continuous
    /\ sim_threshold = 2
    /\ sim_mat = << <<2, 2>>, <<1, 2>> >>
    /\ DOMAIN edges = {<<0, 1>>}

====
